---- MODULE Spec2Model ----
(***************************************************************************)
(* Omnilearn: the MarkdownRenderer component (markdown + math renderer).   *)
(*                                                                         *)
(* A text is a sequence of one-character strings.  The regular expressions *)
(* of the component are modelled by what they match: leftmost match first, *)
(* lazy quantifiers taking the nearest closing delimiter, a global replace *)
(* or split resuming right after the previous match.                       *)
(***************************************************************************)
EXTENDS Integers, Sequences, FiniteSets, TLC

(***************************************************************************)
(* Bounds of the model.                                                    *)
(***************************************************************************)
\* Largest number of pieces a document is built from.
MaxPieces == 3

(***************************************************************************)
(* Text primitives (String.prototype methods used by the component).       *)
(***************************************************************************)
Min(S) == CHOOSE x \in S : \A y \in S : x <= y

Digit == {"0", "1", "2", "3", "4", "5", "6", "7", "8", "9"}

\* \s of a JavaScript regular expression, and what trim() strips.
IsSpace(c) == c \in {" ", "\t", "\n", "\r"}

DigitChar(d) ==
    CASE d = 0 -> "0" [] d = 1 -> "1" [] d = 2 -> "2" [] d = 3 -> "3"
      [] d = 4 -> "4" [] d = 5 -> "5" [] d = 6 -> "6" [] d = 7 -> "7"
      [] d = 8 -> "8" [] d = 9 -> "9"

\* Number to decimal text, as a template literal formats it.
RECURSIVE Decimal(_)
Decimal(n) ==
    IF n < 10 THEN <<DigitChar(n)>>
    ELSE Decimal(n \div 10) \o <<DigitChar(n % 10)>>

\* s.startsWith(p) from position i (1-based).
StartsWithAt(s, i, p) ==
    /\ i >= 1
    /\ i + Len(p) - 1 <= Len(s)
    /\ \A k \in 1..Len(p) : s[i + k - 1] = p[k]

StartsWith(s, p) == StartsWithAt(s, 1, p)

EndsWith(s, p) == Len(s) >= Len(p) /\ StartsWithAt(s, Len(s) - Len(p) + 1, p)

\* s.slice(i - 1) for a 1-based i.
From(s, i) == SubSeq(s, i, Len(s))

\* s.trim()
Trim(s) ==
    LET keep == {i \in 1..Len(s) : ~IsSpace(s[i])}
    IN  IF keep = {} THEN <<>>
        ELSE SubSeq(s, Min(keep), CHOOSE i \in keep : \A j \in keep : j <= i)

\* s.replace(p, '') with a string pattern: the first occurrence only.
RemoveFirst(s, p) ==
    LET at == {i \in 1..Len(s) : StartsWithAt(s, i, p)}
    IN  IF at = {} THEN s
        ELSE SubSeq(s, 1, Min(at) - 1) \o From(s, Min(at) + Len(p))

\* s.split(c) for a one-character separator.
RECURSIVE SplitOn(_, _)
SplitOn(s, c) ==
    LET at == {i \in 1..Len(s) : s[i] = c}
    IN  IF at = {} THEN <<s>>
        ELSE <<SubSeq(s, 1, Min(at) - 1)>> \o SplitOn(From(s, Min(at) + 1), c)

\* Whether text p occurs in s.
Contains(s, p) == \E i \in 1..Len(s) : StartsWithAt(s, i, p)

(***************************************************************************)
(* 1. Tokenizer: parsedContent (useMemo over content).                     *)
(***************************************************************************)
TokenPrefix == <<"_", "_", "M", "A", "T", "H", "_", "T", "O", "K", "E", "N", "_">>

TokenSuffix == <<"_", "_">>

\* `__MATH_TOKEN_${n}__`
PlaceholderId(n) == TokenPrefix \o Decimal(n) \o TokenSuffix

\* storeMath as it would be were the counter read and never incremented.
storeMathNoIncrement(st, math, display) ==
    LET id == PlaceholderId(st.tokenCounter)
    IN  [ id |-> id,
          st |-> [ tokens |-> (id :> [ type |-> IF display THEN "math-display"
                                                ELSE "math-inline",
                                       content |-> math,
                                       id |-> id ]) @@ st.tokens,
                   tokenCounter |-> st.tokenCounter ] ]

\* storeMath: st is the closure state (tokens, tokenCounter); the result is
\* the returned id and the closure state after the call.
storeMath(st, math, display) ==
    LET id == PlaceholderId(st.tokenCounter)
    IN  [ id |-> id,
          st |-> [ tokens |-> (id :> [ type |-> IF display THEN "math-display"
                                                ELSE "math-inline",
                                       content |-> math,
                                       id |-> id ]) @@ st.tokens,
                   tokenCounter |-> st.tokenCounter + 1 ] ]

HasDollars(t, i) == i + 1 <= Len(t) /\ t[i] = "$" /\ t[i + 1] = "$"

\* /\$\$([\s\S]+?)\$\$/ tried at position i: the position of the closing
\* "$$" (the nearest one leaving at least one character of content), 0 when
\* the expression does not match at i.
BlockCloseAt(t, i) ==
    IF ~HasDollars(t, i) THEN 0
    ELSE LET js == {j \in (i + 3)..Len(t) : HasDollars(t, j)}
         IN  IF js = {} THEN 0 ELSE Min(js)

\* The matches of the global expression from position i on, left to right:
\* s is the first character of the match, e its last, math the capture.
RECURSIVE BlockMatches(_, _)
BlockMatches(t, i) ==
    IF i > Len(t) THEN <<>>
    ELSE IF BlockCloseAt(t, i) # 0
         THEN LET j == BlockCloseAt(t, i)
              IN  <<[s |-> i, e |-> j + 1, math |-> SubSeq(t, i + 2, j - 1)]>>
                  \o BlockMatches(t, j + 2)
         ELSE BlockMatches(t, i + 1)

\* /\$([^$\n]+?)\$/ tried at position i: the position of the closing "$", 0
\* when the expression does not match at i.
InlineCloseAt(t, i) ==
    IF i > Len(t) \/ t[i] # "$" THEN 0
    ELSE LET js == {j \in (i + 1)..Len(t) : t[j] = "$"}
         IN  IF js = {} THEN 0
             ELSE LET j == Min(js)
                  IN  IF j >= i + 2 /\ \A k \in (i + 1)..(j - 1) : t[k] # "\n"
                      THEN j ELSE 0

RECURSIVE InlineMatches(_, _)
InlineMatches(t, i) ==
    IF i > Len(t) THEN <<>>
    ELSE IF InlineCloseAt(t, i) # 0
         THEN LET j == InlineCloseAt(t, i)
              IN  <<[s |-> i, e |-> j, math |-> SubSeq(t, i + 1, j - 1)]>>
                  \o InlineMatches(t, j + 1)
         ELSE InlineMatches(t, i + 1)

\* String.prototype.replace with a global expression and a callback that is
\* storeMath: the matches ms[k..] of t are replaced in order, pos is the
\* first character of t not yet copied, acc the text built so far.
RECURSIVE ReplaceMath(_, _, _, _, _, _)
ReplaceMath(t, ms, k, pos, acc, st) ==
    IF k > Len(ms)
    THEN [text |-> acc.text \o From(t, pos), st |-> st]
    ELSE LET r == storeMath(st, ms[k].math, acc.display)
         IN  ReplaceMath(t, ms, k + 1, ms[k].e + 1,
                         [ text |-> acc.text \o SubSeq(t, pos, ms[k].s - 1) \o r.id,
                           display |-> acc.display ],
                         r.st)

\* Step 1: extract block math $$...$$
ExtractBlock(t, st) ==
    ReplaceMath(t, BlockMatches(t, 1), 1, 1, [text |-> <<>>, display |-> TRUE], st)

\* Step 2: extract inline math $...$
ExtractInline(t, st) ==
    ReplaceMath(t, InlineMatches(t, 1), 1, 1, [text |-> <<>>, display |-> FALSE], st)

\* The memo body as it would be were the counter reset between the passes.
TokenizeRestartCounter(c) ==
    LET b == ExtractBlock(c, [tokens |-> <<>>, tokenCounter |-> 0])
        n == ExtractInline(b.text, [tokens |-> b.st.tokens, tokenCounter |-> 0])
    IN  [text |-> n.text, tokens |-> n.st.tokens]

\* The useMemo body: a fresh token map and counter, block pass, inline pass.
Tokenize(c) ==
    LET b == ExtractBlock(c, [tokens |-> <<>>, tokenCounter |-> 0])
        n == ExtractInline(b.text, b.st)
    IN  [text |-> n.text, tokens |-> n.st.tokens]

(***************************************************************************)
(* 2. Inline rendering: renderSegment.                                     *)
(***************************************************************************)
RECURSIVE DigitRun(_, _)
\* Length of the run of digits of t starting at position i (\d+, greedy).
DigitRun(t, i) ==
    IF i <= Len(t) /\ t[i] \in Digit THEN 1 + DigitRun(t, i + 1) ELSE 0

\* /(__MATH_TOKEN_\d+__)/ tried at position i: the last character of the
\* match, 0 when the expression does not match at i.
PlaceholderEndAt(t, i) ==
    IF ~StartsWithAt(t, i, TokenPrefix) THEN 0
    ELSE LET d == DigitRun(t, i + Len(TokenPrefix))
         IN  IF d >= 1 /\ StartsWithAt(t, i + Len(TokenPrefix) + d, TokenSuffix)
             THEN i + Len(TokenPrefix) + d + 1 ELSE 0

\* segmentText.split(/(__MATH_TOKEN_\d+__)/g): the text between the matches
\* and, because of the capture group, the matches themselves, alternating.
\* i scans, pos is the first character after the previous match.
RECURSIVE SplitPlaceholders(_, _, _)
SplitPlaceholders(t, i, pos) ==
    IF i > Len(t) THEN <<From(t, pos)>>
    ELSE IF PlaceholderEndAt(t, i) # 0
         THEN LET e == PlaceholderEndAt(t, i)
              IN  <<SubSeq(t, pos, i - 1), SubSeq(t, i, e)>>
                  \o SplitPlaceholders(t, e + 1, e + 1)
         ELSE SplitPlaceholders(t, i + 1, pos)

Stars == <<"*", "*">>

\* /(\*\*.*?\*\*)/ tried at position i: the last character of the match (the
\* nearest closing "**", "." not crossing a line break), 0 when no match.
BoldEndAt(t, i) ==
    IF ~StartsWithAt(t, i, Stars) THEN 0
    ELSE LET js == {j \in (i + 2)..Len(t) :
                       /\ StartsWithAt(t, j, Stars)
                       /\ \A k \in (i + 2)..(j - 1) : t[k] \notin {"\n", "\r"}}
         IN  IF js = {} THEN 0 ELSE Min(js) + 1

\* part.split(/(\*\*.*?\*\*)/g)
RECURSIVE SplitBold(_, _, _)
SplitBold(t, i, pos) ==
    IF i > Len(t) THEN <<From(t, pos)>>
    ELSE IF BoldEndAt(t, i) # 0
         THEN LET e == BoldEndAt(t, i)
              IN  <<SubSeq(t, pos, i - 1), SubSeq(t, i, e)>>
                  \o SplitBold(t, e + 1, e + 1)
         ELSE SplitBold(t, i + 1, pos)

\* The <strong> of a bold part as it would be were the part not sliced.
BoldSpanKeepsMarkers(subPart) ==
    IF StartsWith(subPart, Stars) /\ EndsWith(subPart, Stars)
    THEN [kind |-> "strong", text |-> subPart]
    ELSE [kind |-> "text", text |-> subPart]

\* The <strong> or <span> of one bold part.
BoldSpan(subPart) ==
    IF StartsWith(subPart, Stars) /\ EndsWith(subPart, Stars)
    THEN [kind |-> "strong", text |-> SubSeq(subPart, 3, Len(subPart) - 2)]
    ELSE [kind |-> "text", text |-> subPart]

RECURSIVE BoldSpans(_)
BoldSpans(boldParts) ==
    IF boldParts = <<>> THEN <<>>
    ELSE <<BoldSpan(Head(boldParts))>> \o BoldSpans(Tail(boldParts))

\* Names every plain object inherits from Object.prototype: tokens[part] is
\* truthy for them although no token was stored under them.
ObjectPrototypeKeys ==
    { <<"c","o","n","s","t","r","u","c","t","o","r">>,
      <<"t","o","S","t","r","i","n","g">>,
      <<"v","a","l","u","e","O","f">>,
      <<"_","_","p","r","o","t","o","_","_">> }

\* parsedContent.tokens[part]: the stored token, an inherited value (whose
\* content and type are undefined), or nothing.
TokenLookup(tokens, part) ==
    IF part \in DOMAIN tokens THEN [found |-> TRUE, own |-> TRUE, token |-> tokens[part]]
    ELSE IF part \in ObjectPrototypeKeys
         THEN [found |-> TRUE, own |-> FALSE,
               token |-> [type |-> "undefined", content |-> <<>>, id |-> <<>>]]
         ELSE [found |-> FALSE, own |-> FALSE,
               token |-> [type |-> "undefined", content |-> <<>>, id |-> <<>>]]

\* The sources for which window.katex.renderToString throws although
\* throwOnError is false: the behaviour of the library the page loaded.
VARIABLE katexFails

\* window.katex.renderToString(content, {throwOnError: false, ...}): the
\* library throws a TypeError for a content that is not a string, and for
\* the sources it fails on.
KatexThrows(look) == ~look.own \/ look.token.content \in katexFails

\* The element of a math token as it would be were one try block put
\* around the whole document: a failure anywhere fails every token.
MathSpanFailsTogether(look, ready) ==
    IF ~ready
    THEN [kind |-> "math-muted", text |-> look.token.content]
    ELSE IF katexFails # {} \/ KatexThrows(look)
         THEN [kind |-> "math-error", text |-> look.token.content]
         ELSE IF look.token.type = "math-display"
              THEN [kind |-> "math-display", text |-> look.token.content]
              ELSE [kind |-> "math-inline", text |-> look.token.content]

\* The element as it would be without the catch block: the exception of
\* renderToString leaves the render.
MathSpanNoCatch(look, ready) ==
    IF ~ready
    THEN [kind |-> "math-muted", text |-> look.token.content]
    ELSE IF KatexThrows(look)
         THEN [kind |-> "uncaught", text |-> <<>>]
         ELSE IF look.token.type = "math-display"
              THEN [kind |-> "math-display", text |-> look.token.content]
              ELSE [kind |-> "math-inline", text |-> look.token.content]

\* The element rendered for a part that is a math token.
MathSpan(look, ready) ==
    IF ~ready
    THEN [kind |-> "math-muted", text |-> look.token.content]
    ELSE IF KatexThrows(look)
         THEN [kind |-> "math-error", text |-> look.token.content]
         ELSE IF look.token.type = "math-display"
              THEN [kind |-> "math-display", text |-> look.token.content]
              ELSE [kind |-> "math-inline", text |-> look.token.content]

\* parts.map(...) of renderSegment, the fragments of bold parts flattened.
RECURSIVE RenderParts(_, _, _)
RenderParts(parts, tokens, ready) ==
    IF parts = <<>> THEN <<>>
    ELSE LET part == Head(parts)
             look == TokenLookup(tokens, part)
         IN  (IF look.found THEN <<MathSpan(look, ready)>>
              ELSE BoldSpans(SplitBold(part, 1, 1)))
             \o RenderParts(Tail(parts), tokens, ready)

\* renderSegment(segmentText); ready is katexLoaded && window.katex.
renderSegment(segmentText, tokens, ready) ==
    RenderParts(SplitPlaceholders(segmentText, 1, 1), tokens, ready)

(***************************************************************************)
(* 3. Line classification: the body of lines.map in MarkdownRenderer.      *)
(***************************************************************************)
H3 == <<"#", "#", "#", " ">>
H2 == <<"#", "#", " ">>
H1 == <<"#", " ">>
Dash == <<"-", " ">>

\* /^\d+\.\s/ on t: the length of the match, 0 when it does not match.
OrderedPrefix(t) ==
    LET d == DigitRun(t, 1)
    IN  IF d >= 1 /\ d + 2 <= Len(t) /\ t[d + 1] = "." /\ IsSpace(t[d + 2])
        THEN d + 2 ELSE 0

\* line.replace(/^- /, '')
RemoveLeadingDash(line) ==
    IF StartsWith(line, Dash) THEN From(line, 3) ELSE line

\* The if-chain as it would be were any line starting with "#" a heading.
LineClassAnyHash(line) ==
    LET trimmed == Trim(line)
    IN  IF trimmed = <<>> THEN "spacer"
        ELSE IF StartsWith(line, <<"#">>) THEN "h1"
        ELSE IF StartsWith(trimmed, Dash) THEN "bullet"
        ELSE IF OrderedPrefix(trimmed) # 0 THEN "ordered"
        ELSE "p"

\* The class of a line: the first test of the if-chain that succeeds.
LineClass(line) ==
    LET trimmed == Trim(line)
    IN  IF trimmed = <<>> THEN "spacer"
        ELSE IF StartsWith(line, H3) THEN "h3"
        ELSE IF StartsWith(line, H2) THEN "h2"
        ELSE IF StartsWith(line, H1) THEN "h1"
        ELSE IF StartsWith(trimmed, Dash) THEN "bullet"
        ELSE IF OrderedPrefix(trimmed) # 0 THEN "ordered"
        ELSE "p"

\* The text a line of a class hands to renderSegment.
LineText(line) ==
    LET trimmed == Trim(line)
        class == LineClass(line)
    IN  CASE class = "spacer" -> <<>>
          [] class = "h3" -> RemoveFirst(line, H3)
          [] class = "h2" -> RemoveFirst(line, H2)
          [] class = "h1" -> RemoveFirst(line, H1)
          [] class = "bullet" -> RemoveLeadingDash(line)
          [] class = "ordered" -> From(trimmed, OrderedPrefix(trimmed) + 1)
          [] OTHER -> line

\* The label of an ordered item: trimmed.split('.')[0] followed by ".".
LineLabel(line) ==
    IF LineClass(line) = "ordered"
    THEN Head(SplitOn(Trim(line), ".")) \o <<".">>
    ELSE <<>>

\* The element rendered for one line.
RenderLine(line, tokens, ready) ==
    [ tag |-> LineClass(line),
      label |-> LineLabel(line),
      children |-> IF LineClass(line) = "spacer" THEN <<>>
                   ELSE renderSegment(LineText(line), tokens, ready) ]

\* The returned element as it would be were ordered items numbered by a
\* running counter.
RenderDocumentRunningCounter(parsed, ready) ==
    LET lines == SplitOn(parsed.text, "\n")
        nth(k) == Cardinality({j \in 1..k : LineClass(lines[j]) = "ordered"})
    IN  [k \in 1..Len(lines) |->
            IF LineClass(lines[k]) = "ordered"
            THEN [RenderLine(lines[k], parsed.tokens, ready)
                    EXCEPT !.label = Decimal(nth(k)) \o <<".">>]
            ELSE RenderLine(lines[k], parsed.tokens, ready)]

\* The returned element as it would be were blank lines dropped.
RenderDocumentSkipsBlank(parsed, ready) ==
    LET lines == SelectSeq(SplitOn(parsed.text, "\n"), LAMBDA l : Trim(l) # <<>>)
    IN  [k \in 1..Len(lines) |-> RenderLine(lines[k], parsed.tokens, ready)]

\* The returned element: one child per line of parsedContent.text.
RenderDocument(parsed, ready) ==
    LET lines == SplitOn(parsed.text, "\n")
    IN  [k \in 1..Len(lines) |-> RenderLine(lines[k], parsed.tokens, ready)]

(***************************************************************************)
(* 4. Documents handed to the component.  A document is a sequence of      *)
(* pieces: plain text, or a math span with its source; the content prop is *)
(* the text of the pieces, a math span written between its delimiters.     *)
(***************************************************************************)
Plain(str) == [kind |-> "plain", src |-> str]
InlineMath(str) == [kind |-> "inline", src |-> str]
DisplayMath(str) == [kind |-> "display", src |-> str]

PieceText(p) ==
    CASE p.kind = "inline" -> <<"$">> \o p.src \o <<"$">>
      [] p.kind = "display" -> <<"$", "$">> \o p.src \o <<"$", "$">>
      [] OTHER -> p.src

RECURSIVE DocText(_)
DocText(d) == IF d = <<>> THEN <<>> ELSE PieceText(Head(d)) \o DocText(Tail(d))

\* Pieces of documents with math: text, a line break, a stray "$", text that
\* reads like a placeholder, and inline and display spans whose source holds
\* characters markdown gives a meaning to.
MathPieces ==
    { Plain(<<"a">>), Plain(<<"\n">>), Plain(<<"$">>), Plain(PlaceholderId(0)),
      InlineMath(<<"x">>), InlineMath(<<"#", " ">>),
      DisplayMath(<<"y">>), DisplayMath(<<"-", " ", "\n", "#", " ">>) }

\* Pieces of documents with line markers.
LinePieces ==
    { Plain(<<" ">>), Plain(<<"a">>), Plain(<<"\n">>),
      Plain(H3), Plain(H2), Plain(H1), Plain(Dash), Plain(<<"7", ".", " ">>) }

\* Pieces of documents with ordered items: whole lines and their parts.
OrderedPieces ==
    { Plain(<<"1", ".", " ", "a", "\n">>), Plain(<<"3", ".", " ", "b", "\n">>), Plain(<<"7", ".", " ", "D", "o", " ", "X">>),
      Plain(<<" ">>), Plain(<<"1">>), Plain(<<".", " ">>), Plain(<<"a">>) }

\* The three parts of the document
\*   ## Heading / - point one / - point $x+1$ / (blank) / Paragraph **bold** text.
ExampleHead == Plain(<<"#", "#", " ", "H", "e", "a", "d", "i", "n", "g", "\n", "-", " ", "p", "o", "i", "n", "t", " ", "o", "n", "e", "\n">>)
ExampleMid == Plain(<<"-", " ", "p", "o", "i", "n", "t", " ", "$", "x", "+", "1", "$", "\n", "\n">>)
ExampleTail == Plain(<<"P", "a", "r", "a", "g", "r", "a", "p", "h", " ", "*", "*", "b", "o", "l", "d", "*", "*", " ", "t", "e", "x", "t", ".">>)

ExamplePieces == {ExampleHead, ExampleMid, ExampleTail, Plain(<<"\n">>), Plain(<<"a">>)}

\* Pieces of documents with bold markers, complete and not, around math.
BoldPieces ==
    { Plain(<<"*", "*", "b", "o", "l", "d", "*", "*", " ", "a", "n", "d", " ">>), InlineMath(<<"x", "^", "2">>), Plain(<<" ", "e", "n", "d">>),
      Plain(<<"*", "*">>), Plain(<<"*">>), Plain(<<"a">>) }

\* Pieces of documents typeset by a KaTeX that fails on some sources, with
\* a text that names a property every object inherits.
FailingPieces ==
    { Plain(<<"a">>), Plain(<<"\n">>), InlineMath(<<"x">>), DisplayMath(<<"y">>),
      Plain(<<"c","o","n","s","t","r","u","c","t","o","r">>) }

\* The sets of sources KaTeX may fail on.
FailingSources == SUBSET {<<"x">>, <<"y">>}

\* Pieces of the documents of the readiness properties.
LivePieces == {Plain(<<"a">>), InlineMath(<<"x">>), DisplayMath(<<"y">>)}

(***************************************************************************)
(* 5. The component instance.                                              *)
(***************************************************************************)
VARIABLES
    doc,            \* the document the content prop was written from
    content,        \* props.content
    parsedContent,  \* the memo: [text, tokens]
    katexLoaded,    \* useState(false)
    windowKatex,    \* whether window.katex is defined
    interval,       \* the number of active polling intervals of the effect
    phase           \* "rendered" (effect pending), "mounted", "unmounted"

\* The state of the components beside the renderer: the application (App),
\* the tutor chat (ChatInterface), the quiz (Quiz), the audio player
\* (AudioPlayer).  Each is a record of the state and refs of the component.
VARIABLES app, chat, quiz, player

rendererVars == <<doc, content, parsedContent, katexLoaded, windowKatex, interval, phase, katexFails>>

vars == <<rendererVars, app, chat, quiz, player>>

\* Math.min(n, Len(s)) first elements of s: s.slice(0, n).
Slice(s, n) == SubSeq(s, 1, Min({n, Len(s)}))

\* [newLesson, ...history].slice(0, 50)
HistoryLimit == 50

\* A history that holds HistoryLimit lessons, newest first; lessons are
\* named by numbers in the order of their making, 0 standing for null.
FullHistory == [k \in 1..HistoryLimit |-> HistoryLimit + 1 - k]

\* localStorage.getItem('omniLearn_history') when the page is opened: null,
\* or a list saved by an earlier session.
NoItem == [present |-> FALSE, value |-> <<>>]
Item(list) == [present |-> TRUE, value |-> list]

\* App as useState initialises it, before its mount effect.
AppStart(savedHistory) ==
    [ history |-> <<>>, storage |-> savedHistory, lesson |-> 0, roadmap |-> FALSE,
      audioBuffer |-> FALSE, loading |-> FALSE, loadingRoadmap |-> FALSE,
      loadingAudio |-> FALSE, pending |-> <<>>, made |-> 0, deleted |-> {},
      mounted |-> FALSE ]

\* ChatInterface as useState initialises it: the greeting, nothing in flight.
ChatStart ==
    [ messages |-> <<[role |-> "model", content |-> "greeting"]>>,
      loading |-> FALSE, pending |-> <<>>, sent |-> 0 ]

\* Quiz over a list of questions, each given by its correctAnswerIndex; -1
\* stands for the null of selectedOption.
QuizStart(questions) ==
    [ questions |-> questions, currentQuestionIndex |-> 0, selectedOption |-> -1,
      isSubmitted |-> FALSE, score |-> 0, showResult |-> FALSE, submitted |-> {} ]

\* AudioPlayer after its mount effect made the AudioContext, in the state
\* the browser gives it.  playing holds the buffer sources started and not
\* yet stopped or ended, frames the animation frames requested and not yet
\* run or cancelled; 0 stands for the null of the refs.
PlayerStart(contextState) ==
    [ isPlaying |-> FALSE, currentTime |-> 0, contextState |-> contextState,
      sourceRef |-> 0, startTimeRef |-> 0, pausedAtRef |-> 0, animationFrameRef |-> 0,
      playing |-> {}, frames |-> {}, resuming |-> 0, clock |-> 0 ]

\* The components the specifications of the renderer leave alone.
OutsideRendererIdle ==
    /\ app = AppStart(NoItem)
    /\ chat = ChatStart
    /\ quiz = QuizStart(<<>>)
    /\ player = PlayerStart("suspended")


\* The render pass as it would be were the flag katexLoaded not consulted.
RenderedIgnoringFlag == RenderDocument(parsedContent, windowKatex)

\* What the last render pass returned.
Rendered == RenderDocument(parsedContent, katexLoaded /\ windowKatex)

\* The first render of an instance created with a document of pieces of P,
\* in a page whose KaTeX fails on the sources of one of the sets of F.
InitOf(P, F) ==
    /\ doc \in {<<>>} \cup {<<p>> : p \in P}
    /\ content = DocText(doc)
    /\ parsedContent = Tokenize(content)
    /\ katexLoaded = FALSE
    /\ windowKatex \in BOOLEAN
    /\ interval = 0
    /\ phase = "rendered"
    /\ katexFails \in F
    /\ OutsideRendererIdle

\* The first render in a page whose KaTeX typesets every source.
InitWith(P) == InitOf(P, {{}})

\* The effect as it would be were no interval started for an absent KaTeX.
MountEffectNoPolling ==
    /\ phase = "rendered"
    /\ phase' = "mounted"
    /\ IF windowKatex
       THEN katexLoaded' = TRUE /\ interval' = interval
       ELSE UNCHANGED <<katexLoaded, interval>>
    /\ UNCHANGED <<doc, content, parsedContent, windowKatex, katexFails, app, chat, quiz, player>>

\* The effect run after the first render: setKatexLoaded(true) when
\* window.katex is there, setInterval otherwise.
MountEffect ==
    /\ phase = "rendered"
    /\ phase' = "mounted"
    /\ IF windowKatex
       THEN katexLoaded' = TRUE /\ interval' = interval
       ELSE katexLoaded' = katexLoaded /\ interval' = interval + 1
    /\ UNCHANGED <<doc, content, parsedContent, windowKatex, katexFails, app, chat, quiz, player>>

\* The KaTeX script finishes loading.
KatexScriptLoads ==
    /\ ~windowKatex
    /\ windowKatex' = TRUE
    /\ UNCHANGED <<doc, content, parsedContent, katexLoaded, interval, phase, katexFails, app, chat, quiz, player>>

\* The interval callback as it would be without its clearInterval.
PollTickNoClear ==
    /\ interval > 0
    /\ IF windowKatex
       THEN katexLoaded' = TRUE /\ interval' = interval
       ELSE UNCHANGED <<katexLoaded, interval>>
    /\ UNCHANGED <<doc, content, parsedContent, windowKatex, phase, katexFails, app, chat, quiz, player>>

\* The interval callback fires: setKatexLoaded(true) and clearInterval once
\* window.katex is there.
PollTick ==
    /\ interval > 0
    /\ IF windowKatex
       THEN katexLoaded' = TRUE /\ interval' = interval - 1
       ELSE UNCHANGED <<katexLoaded, interval>>
    /\ UNCHANGED <<doc, content, parsedContent, windowKatex, phase, katexFails, app, chat, quiz, player>>

\* The instance is removed: the cleanup of the effect clears the interval.
Unmount ==
    /\ phase = "mounted"
    /\ phase' = "unmounted"
    /\ interval' = IF interval > 0 THEN interval - 1 ELSE 0
    /\ UNCHANGED <<doc, content, parsedContent, katexLoaded, windowKatex, katexFails, app, chat, quiz, player>>

\* The memo as it would be were tokens and tokenCounter kept across runs.
MemoKeepsTokens(c) ==
    LET kept == [ tokens |-> parsedContent.tokens,
                  tokenCounter |-> Cardinality(DOMAIN parsedContent.tokens) ]
        b == ExtractBlock(c, kept)
        n == ExtractInline(b.text, b.st)
    IN  [text |-> n.text, tokens |-> n.st.tokens]

\* useMemo(..., [content]) run for a new content: the body runs again, with
\* the tokens and tokenCounter it declares.
MemoParsedContent(c) == Tokenize(c)

\* The parent renders the instance with a new content: the memo is computed
\* again.  The new document extends the current one by a piece.
ContentGrows(P) ==
    /\ phase = "mounted"
    /\ Len(doc) < MaxPieces
    /\ \E p \in P :
         /\ doc' = Append(doc, p)
         /\ content' = DocText(doc')
         /\ parsedContent' = MemoParsedContent(content')
    /\ UNCHANGED <<katexLoaded, windowKatex, interval, phase, katexFails, app, chat, quiz, player>>

\* The change of content as it would be were the state of the instance reset.
ContentClearedResetsReady ==
    /\ phase = "mounted"
    /\ doc # <<>>
    /\ doc' = <<>>
    /\ content' = <<>>
    /\ parsedContent' = MemoParsedContent(content')
    /\ katexLoaded' = FALSE
    /\ UNCHANGED <<windowKatex, interval, phase, katexFails, app, chat, quiz, player>>

\* The parent renders the instance with an empty content.
ContentCleared ==
    /\ phase = "mounted"
    /\ doc # <<>>
    /\ doc' = <<>>
    /\ content' = <<>>
    /\ parsedContent' = MemoParsedContent(content')
    /\ UNCHANGED <<katexLoaded, windowKatex, interval, phase, katexFails, app, chat, quiz, player>>

Lifecycle == MountEffect \/ KatexScriptLoads \/ PollTick \/ Unmount \/ ContentCleared

Init == InitWith(MathPieces)

Next == Lifecycle \/ ContentGrows(MathPieces)

Spec == Init /\ [][Next]_vars

InitLines == InitWith(LinePieces)

NextLines == Lifecycle \/ ContentGrows(LinePieces)

SpecLines == InitLines /\ [][NextLines]_vars

InitOrdered == InitWith(OrderedPieces)

NextOrdered == Lifecycle \/ ContentGrows(OrderedPieces)

SpecOrdered == InitOrdered /\ [][NextOrdered]_vars

InitExample == InitWith(ExamplePieces)

NextExample == Lifecycle \/ ContentGrows(ExamplePieces)

SpecExample == InitExample /\ [][NextExample]_vars

InitBold == InitWith(BoldPieces)

NextBold == Lifecycle \/ ContentGrows(BoldPieces)

SpecBold == InitBold /\ [][NextBold]_vars

InitFailing == InitOf(FailingPieces, FailingSources)

NextFailing == Lifecycle \/ ContentGrows(FailingPieces)

SpecFailing == InitFailing /\ [][NextFailing]_vars

InitLive == InitWith(LivePieces)

NextLive == Lifecycle \/ ContentGrows(LivePieces)

\* The effect runs once the first render is committed, and an active
\* interval keeps firing.
SpecLive ==
    InitLive /\ [][NextLive]_vars /\ WF_vars(MountEffect) /\ WF_vars(PollTick)

(***************************************************************************)
(* 6. Properties.                                                          *)
(***************************************************************************)
\* The positions of the pieces of a kind in a document.
PiecesOfKind(d, kind) == {k \in 1..Len(d) : d[k].kind = kind}

\* A document whose "$" characters are all delimiters of its math spans.
Balanced(d) ==
    \A k \in 1..Len(d) :
        /\ "$" \notin {d[k].src[i] : i \in 1..Len(d[k].src)}
        /\ d[k].kind = "inline" => "\n" \notin {d[k].src[i] : i \in 1..Len(d[k].src)}
        /\ d[k].kind # "plain" => d[k].src # <<>>

\* A document none of whose plain pieces reads like a placeholder.
NoPlaceholderText(d) ==
    \A k \in PiecesOfKind(d, "plain") : ~Contains(d[k].src, TokenPrefix)

TokensOfType(tokens, type) == {id \in DOMAIN tokens : tokens[id].type = type}

FreshState == [tokens |-> <<>>, tokenCounter |-> 0]

\* The text the block pass leaves to the inline pass.
AfterBlockPass == ExtractBlock(content, FreshState).text

\* The lines of the placeholder text.
Lines == SplitOn(parsedContent.text, "\n")

\* The parts renderSegment splits the lines into, all lines in order.
RECURSIVE PartsOfLines(_)
PartsOfLines(ls) ==
    IF ls = <<>> THEN <<>>
    ELSE (IF LineClass(Head(ls)) = "spacer" THEN <<>>
          ELSE SplitPlaceholders(LineText(Head(ls)), 1, 1))
         \o PartsOfLines(Tail(ls))

\* The spans of a rendered document, all blocks in order.
RECURSIVE SpansOf(_)
SpansOf(blocks) ==
    IF blocks = <<>> THEN <<>> ELSE Head(blocks).children \o SpansOf(Tail(blocks))

IsMathSpan(sp) == sp.kind \in {"math-muted", "math-error", "math-inline", "math-display"}

\* The text of the spans of one block, concatenated.
RECURSIVE SpanText(_)
SpanText(spans) ==
    IF spans = <<>> THEN <<>> ELSE Head(spans).text \o SpanText(Tail(spans))

\* C1: for a document of balanced math spans and plain text, tokenization
\* yields one display token per $$...$$ span and one inline token per $...$
\* span, and the placeholder text holds no "$".
C1_TokenCounts ==
    Balanced(doc) =>
        /\ Cardinality(TokensOfType(parsedContent.tokens, "math-display"))
             = Cardinality(PiecesOfKind(doc, "display"))
        /\ Cardinality(TokensOfType(parsedContent.tokens, "math-inline"))
             = Cardinality(PiecesOfKind(doc, "inline"))
        /\ ~Contains(parsedContent.text, <<"$">>)

\* C2: every minted token id is resolved exactly once as a math span of the
\* rendered document, and no rendered span shows a minted id as text (stated
\* for texts that hold nothing reading like a placeholder).
C2_EveryTokenResolvedOnce ==
    NoPlaceholderText(doc) =>
        \A id \in DOMAIN parsedContent.tokens :
            /\ Cardinality({k \in 1..Len(PartsOfLines(Lines)) :
                               PartsOfLines(Lines)[k] = id}) = 1
            /\ \A k \in 1..Len(SpansOf(Rendered)) :
                   ~Contains(SpansOf(Rendered)[k].text, id)

\* The document with the source of every math span replaced by "x".
Neutral(d) ==
    [k \in 1..Len(d) |-> IF d[k].kind = "plain" THEN d[k] ELSE [d[k] EXCEPT !.src = <<"x">>]]

\* The number of line breaks of a document outside its math spans.
RECURSIVE BreaksOutsideMath(_)
BreaksOutsideMath(d) ==
    IF d = <<>> THEN 0
    ELSE (IF Head(d).kind = "plain"
          THEN Cardinality({i \in 1..Len(Head(d).src) : Head(d).src[i] = "\n"})
          ELSE 0) + BreaksOutsideMath(Tail(d))

Tags(blocks) == [k \in 1..Len(blocks) |-> blocks[k].tag]

\* C3: math is extracted before markdown is processed: the characters of the
\* math spans of a balanced document decide neither the number of lines nor
\* their classes, and the source of every display span, line breaks
\* included, is the content of a display token.
C3_MathOpaque ==
    Balanced(doc) =>
        /\ Len(Lines) = 1 + BreaksOutsideMath(doc)
        /\ Tags(Rendered)
             = Tags(RenderDocument(Tokenize(DocText(Neutral(doc))), katexLoaded /\ windowKatex))
        /\ \A k \in PiecesOfKind(doc, "display") :
               \E id \in TokensOfType(parsedContent.tokens, "math-display") :
                   parsedContent.tokens[id].content = doc[k].src

\* The characters the first k block matches remove, less those of the
\* placeholders put in their place.
RECURSIVE BlockShift(_, _)
BlockShift(ms, k) ==
    IF k = 0 THEN 0
    ELSE BlockShift(ms, k - 1) + (ms[k].e - ms[k].s + 1) - Len(PlaceholderId(k - 1))

\* The position in the content of the character at position q of the text
\* the block pass leaves; 0 for a character of a placeholder.
ContentIndex(q) ==
    LET ms == BlockMatches(content, 1)
        first(k) == ms[k].s - BlockShift(ms, k - 1)
        last(k) == first(k) + Len(PlaceholderId(k - 1)) - 1
        before == {k \in 1..Len(ms) : last(k) < q}
    IN  IF \E k \in 1..Len(ms) : first(k) <= q /\ q <= last(k) THEN 0
        ELSE q + BlockShift(ms, Cardinality(before))

\* The positions in the content of the "$" of the delimiters of the display
\* spans of a document.
DisplayDelimiters(d) ==
    UNION { LET o == Len(DocText(SubSeq(d, 1, k - 1)))
                n == Len(PieceText(d[k]))
            IN  {o + 1, o + 2, o + n - 1, o + n} : k \in PiecesOfKind(d, "display") }

\* C4: no inline token is made from a "$" of the delimiters of a $$...$$
\* span: neither end of a match of the inline pass is such a character.
C4_BlockDelimitersNotInline ==
    Balanced(doc) =>
        \A k \in 1..Len(InlineMatches(AfterBlockPass, 1)) :
            LET m == InlineMatches(AfterBlockPass, 1)[k]
            IN  /\ ContentIndex(m.s) \notin DisplayDelimiters(doc)
                /\ ContentIndex(m.e) \notin DisplayDelimiters(doc)

\* The matches of the two passes of the tokenization of the content.
BlockPassMatches == BlockMatches(content, 1)
InlinePassMatches == InlineMatches(AfterBlockPass, 1)

\* C5: the token ids of one tokenization pass are pairwise distinct: the
\* token map holds as many ids as storeMath was called, once per match.
C5_IdsDistinct ==
    Cardinality(DOMAIN parsedContent.tokens)
        = Len(BlockPassMatches) + Len(InlinePassMatches)

\* C5, its case: a pass that mints three tokens, of both kinds.
C5_ThreeTokens ==
    /\ Cardinality(DOMAIN parsedContent.tokens) = 3
    /\ TokensOfType(parsedContent.tokens, "math-display") # {}
    /\ TokensOfType(parsedContent.tokens, "math-inline") # {}

\* The minted ids found in the placeholder text, left to right.
IdsInText ==
    SelectSeq(SplitPlaceholders(parsedContent.text, 1, 1),
              LAMBDA part : part \in DOMAIN parsedContent.tokens)

\* The counter value an id was made from.
CounterOf(id) == CHOOSE n \in 0..(Cardinality(DOMAIN parsedContent.tokens)) : PlaceholderId(n) = id

\* C6 as claimed: of two math spans, whatever their kinds, the one that
\* starts earlier in the text has the smaller counter in its id (stated for
\* texts that hold nothing reading like a placeholder).
C6_LeftToRightAcrossKinds ==
    NoPlaceholderText(doc) =>
        \A i, j \in 1..Len(IdsInText) :
            i < j => CounterOf(IdsInText[i]) < CounterOf(IdsInText[j])

\* C6 as amended: ids follow the scan order of each pass.  The matches of a
\* pass lie left to right; the k-th match of the block pass is the display
\* token of counter k - 1 and, N being the number of block matches, the k-th
\* match of the inline pass is the inline token of counter N + k - 1.
C6_ScanOrderPerPass ==
    /\ \A k \in 1..(Len(BlockPassMatches) - 1) :
           BlockPassMatches[k].e < BlockPassMatches[k + 1].s
    /\ \A k \in 1..(Len(InlinePassMatches) - 1) :
           InlinePassMatches[k].e < InlinePassMatches[k + 1].s
    /\ \A k \in 1..Len(BlockPassMatches) :
           /\ PlaceholderId(k - 1) \in DOMAIN parsedContent.tokens
           /\ parsedContent.tokens[PlaceholderId(k - 1)]
                = [ type |-> "math-display", content |-> BlockPassMatches[k].math,
                    id |-> PlaceholderId(k - 1) ]
    /\ \A k \in 1..Len(InlinePassMatches) :
           LET n == Len(BlockPassMatches) + k - 1
           IN  /\ PlaceholderId(n) \in DOMAIN parsedContent.tokens
               /\ parsedContent.tokens[PlaceholderId(n)]
                    = [ type |-> "math-inline", content |-> InlinePassMatches[k].math,
                        id |-> PlaceholderId(n) ]

\* C6, its case: an inline span that starts before a display span and has
\* the larger counter.
C6_InlineBeforeDisplay ==
    /\ Len(BlockPassMatches) >= 1
    /\ Len(InlinePassMatches) >= 1
    /\ Len(IdsInText) = 2
    /\ parsedContent.tokens[IdsInText[1]].type = "math-inline"
    /\ parsedContent.tokens[IdsInText[2]].type = "math-display"

\* C7: text of the input that reads like a placeholder and is no math span
\* is shown as the text it was and is never resolved as a math token: the
\* rendered document has no more math spans than tokens were minted.
C7_NoCollision ==
    (Balanced(doc) /\ \E k \in PiecesOfKind(doc, "plain") : doc[k].src = PlaceholderId(0)) =>
        /\ \E k \in 1..Len(SpansOf(Rendered)) :
               /\ ~IsMathSpan(SpansOf(Rendered)[k])
               /\ Contains(SpansOf(Rendered)[k].text, PlaceholderId(0))
        /\ Cardinality({k \in 1..Len(SpansOf(Rendered)) : IsMathSpan(SpansOf(Rendered)[k])})
             <= Cardinality(DOMAIN parsedContent.tokens)

\* The classes in the order of their tests, and what each test asks of a line.
ClassOrder == <<"spacer", "h3", "h2", "h1", "bullet", "ordered", "p">>

ClassTests(line) ==
    << Trim(line) = <<>>,
       StartsWith(line, H3),
       StartsWith(line, H2),
       StartsWith(line, H1),
       StartsWith(Trim(line), Dash),
       OrderedPrefix(Trim(line)) # 0,
       TRUE >>

FirstMatch(line) == ClassOrder[Min({k \in 1..7 : ClassTests(line)[k]})]

\* C8: every line gets the one class of the first test it passes, in the
\* order blank, heading 3, heading 2, heading 1, bullet, ordered item,
\* paragraph; a line "### ..." is a level-3 heading, and a line that is empty
\* once trimmed is a spacer without content.
C8_FirstMatchClass ==
    /\ Len(Rendered) = Len(Lines)
    /\ \A k \in 1..Len(Lines) :
           /\ Rendered[k].tag = FirstMatch(Lines[k])
           /\ StartsWith(Lines[k], H3) => Rendered[k].tag = "h3"
           /\ Trim(Lines[k]) = <<>> =>
                  /\ Rendered[k].tag = "spacer"
                  /\ Rendered[k].children = <<>>
                  /\ Rendered[k].label = <<>>

\* C8, its case: a document with a line "### a" and a blank line.
C8_HeadingAndBlank ==
    /\ Len(Lines) = 2
    /\ Lines[1] = H3 \o <<"a">>
    /\ Rendered[1].tag = "h3"
    /\ Lines[2] = <<>>
    /\ Rendered[2].tag = "spacer"

\* C9: the prefix tests use the trimmed line for every class: a line whose
\* trimmed form starts with "### ", "## ", "# " or "- " is a heading of that
\* level or a bullet, leading whitespace or not.
C9_TrimmedPrefix ==
    \A k \in 1..Len(Lines) :
        /\ StartsWith(Trim(Lines[k]), H3) => Rendered[k].tag = "h3"
        /\ StartsWith(Trim(Lines[k]), H2) => Rendered[k].tag = "h2"
        /\ StartsWith(Trim(Lines[k]), H1) => Rendered[k].tag = "h1"
        /\ StartsWith(Trim(Lines[k]), Dash) => Rendered[k].tag = "bullet"

\* The marker of a class of lines.
MarkerOf(tag) ==
    CASE tag = "h3" -> H3 [] tag = "h2" -> H2 [] tag = "h1" -> H1 [] tag = "bullet" -> Dash

\* C10: the text rendered for a heading or a bullet is the line with its
\* marker removed and nothing else: the marker stands where the whitespace
\* that leads the line ends, and the characters before and after it are kept.
C10_MarkerStripped ==
    \A k \in 1..Len(Lines) :
        Rendered[k].tag \in {"h3", "h2", "h1", "bullet"} =>
            LET line == Lines[k]
                m == MarkerOf(Rendered[k].tag)
                i == Min({j \in 1..Len(line) : ~IsSpace(line[j])})
            IN  /\ StartsWithAt(line, i, m)
                /\ SpanText(Rendered[k].children)
                     = SubSeq(line, 1, i - 1) \o From(line, i + Len(m))

\* C11: an ordered-item line is rendered with the digits that lead the
\* source line and a period as its label, whatever the items before it, and
\* its text is the trimmed line without that prefix; every line whose trimmed
\* form starts with digits, a period and a space is such an item.
C11_OrderedLabel ==
    /\ Len(Rendered) = Len(Lines)
    /\ \A k \in 1..Len(Lines) :
           LET t == Trim(Lines[k])
               d == DigitRun(t, 1)
               isItem == /\ d >= 1 /\ d + 2 <= Len(t)
                         /\ t[d + 1] = "." /\ IsSpace(t[d + 2])
           IN  /\ isItem <=> Rendered[k].tag = "ordered"
               /\ isItem =>
                      /\ Rendered[k].label = SubSeq(t, 1, d) \o <<".">>
                      /\ SpanText(Rendered[k].children) = From(t, d + 3)

\* C11, its case: three items labelled "1.", "1." and "3." in the source.
C11_OneOneThree ==
    /\ Len(Rendered) >= 3
    /\ Rendered[1].tag = "ordered" /\ Rendered[1].label = <<"1", ".">>
    /\ Rendered[2].tag = "ordered" /\ Rendered[2].label = <<"1", ".">>
    /\ Rendered[3].tag = "ordered" /\ Rendered[3].label = <<"3", ".">>
    /\ SpanText(Rendered[3].children) = <<"b">>

\* The spans of a block that show something: math, or text that is not empty.
NonEmptySpans(spans) == SelectSeq(spans, LAMBDA sp : IsMathSpan(sp) \/ sp.text # <<>>)

\* A block reduced to its class, its label and its non-empty spans, a math
\* span named "math" whatever the way it is shown.
Shape(block) ==
    [ tag |-> block.tag,
      label |-> block.label,
      spans |-> [k \in 1..Len(NonEmptySpans(block.children)) |->
                    [ kind |-> IF IsMathSpan(NonEmptySpans(block.children)[k])
                               THEN "math" ELSE NonEmptySpans(block.children)[k].kind,
                      text |-> NonEmptySpans(block.children)[k].text ]] ]

ExampleBlocks ==
    << [tag |-> "h2", label |-> <<>>,
        spans |-> <<[kind |-> "text", text |-> <<"H", "e", "a", "d", "i", "n", "g">>]>>],
       [tag |-> "bullet", label |-> <<>>,
        spans |-> <<[kind |-> "text", text |-> <<"p", "o", "i", "n", "t", " ", "o", "n", "e">>]>>],
       [tag |-> "bullet", label |-> <<>>,
        spans |-> <<[kind |-> "text", text |-> <<"p", "o", "i", "n", "t", " ">>],
                    [kind |-> "math", text |-> <<"x", "+", "1">>]>>],
       [tag |-> "spacer", label |-> <<>>, spans |-> <<>>],
       [tag |-> "p", label |-> <<>>,
        spans |-> <<[kind |-> "text", text |-> <<"P", "a", "r", "a", "g", "r", "a", "p", "h", " ">>],
                    [kind |-> "strong", text |-> <<"b", "o", "l", "d">>],
                    [kind |-> "text", text |-> <<" ", "t", "e", "x", "t", ".">>]>>] >>

\* C12: the rendered document has one block per line of the placeholder
\* text, block k of the class of line k; the document "## Heading", "- point
\* one", "- point $x+1$", blank, "Paragraph **bold** text." gives a level-2
\* heading, two bullets, the second ending in the inline math span x+1, a
\* spacer and a paragraph with the bold span "bold".
C12_OneBlockPerLine ==
    /\ Len(Rendered)
         = 1 + Cardinality({i \in 1..Len(parsedContent.text) : parsedContent.text[i] = "\n"})
    /\ \A k \in 1..Len(Rendered) : Rendered[k].tag = FirstMatch(Lines[k])
    /\ doc = <<ExampleHead, ExampleMid, ExampleTail>> =>
           /\ [k \in 1..Len(Rendered) |-> Shape(Rendered[k])] = ExampleBlocks
           /\ NonEmptySpans(Rendered[3].children)[2].kind
                = IF katexLoaded /\ windowKatex THEN "math-inline" ELSE "math-muted"

\* C12, its case: the example document, rendered in five blocks.
C12_ExampleRendered ==
    /\ doc = <<ExampleHead, ExampleMid, ExampleTail>>
    /\ Len(Rendered) = 5
    /\ katexLoaded

\* The document  **bold** and $x^2$ end.
BoldExample ==
    <<Plain(<<"*", "*", "b", "o", "l", "d", "*", "*", " ", "a", "n", "d", " ">>), InlineMath(<<"x", "^", "2">>), Plain(<<" ", "e", "n", "d">>)>>

\* C13: a line is split on placeholders first and on **...** inside the
\* parts that are no token: no bold span holds a placeholder, and the line
\* "**bold** and $x^2$ end" renders as the non-empty spans strong "bold",
\* text " and ", inline math "x^2", text " end", the markers stripped.
C13_PlaceholdersThenBold ==
    /\ \A k \in 1..Len(SpansOf(Rendered)) :
           SpansOf(Rendered)[k].kind = "strong"
               => ~Contains(SpansOf(Rendered)[k].text, TokenPrefix)
    /\ doc = BoldExample =>
           /\ Len(Rendered) = 1
           /\ Shape(Rendered[1])
                = [tag |-> "p", label |-> <<>>,
                   spans |-> <<[kind |-> "strong", text |-> <<"b", "o", "l", "d">>],
                               [kind |-> "text", text |-> <<" ", "a", "n", "d", " ">>],
                               [kind |-> "math", text |-> <<"x", "^", "2">>],
                               [kind |-> "text", text |-> <<" ", "e", "n", "d">>]>>]
           /\ NonEmptySpans(Rendered[1].children)[3].kind
                = IF katexLoaded /\ windowKatex THEN "math-inline" ELSE "math-muted"

\* C13, its case: the example line rendered, its math typeset.
C13_BoldExampleRendered ==
    /\ doc = BoldExample
    /\ katexLoaded
    /\ Len(NonEmptySpans(Rendered[1].children)) = 4

\* A text with the two markers of every complete **...** pair removed, the
\* pairs found as the bold split finds them.
RECURSIVE StripPairs(_, _)
StripPairs(t, i) ==
    IF i > Len(t) THEN <<>>
    ELSE IF BoldEndAt(t, i) # 0
         THEN SubSeq(t, i + 2, BoldEndAt(t, i) - 2) \o StripPairs(t, BoldEndAt(t, i) + 1)
         ELSE <<t[i]>> \o StripPairs(t, i + 1)

\* The text the parts of a line that are no token are to show.
RECURSIVE LiteralText(_, _)
LiteralText(parts, tokens) ==
    IF parts = <<>> THEN <<>>
    ELSE (IF TokenLookup(tokens, Head(parts)).found THEN <<>>
          ELSE StripPairs(Head(parts), 1))
         \o LiteralText(Tail(parts), tokens)

\* The text of the spans of a block that are no math span.
NonMathText(spans) == SpanText(SelectSeq(spans, LAMBDA sp : ~IsMathSpan(sp)))

\* C14: no text is lost to malformed bold markers: in every block the text
\* shown outside math is the text of the non-math parts of its line with
\* only the markers of complete **...** pairs removed, every other "*"
\* shown as it is written.
C14_StarsKept ==
    \A k \in 1..Len(Rendered) :
        Rendered[k].tag # "spacer" =>
            NonMathText(Rendered[k].children)
              = LiteralText(SplitPlaceholders(LineText(Lines[k]), 1, 1), parsedContent.tokens)

\* The text a rendered document shows: the text of the spans of every
\* block, the math spans by their source, the blocks joined by line breaks.
RECURSIVE JoinBlocks(_)
JoinBlocks(blocks) ==
    IF blocks = <<>> THEN <<>>
    ELSE IF Len(blocks) = 1 THEN SpanText(Head(blocks).children)
         ELSE SpanText(Head(blocks).children) \o <<"\n">> \o JoinBlocks(Tail(blocks))

\* The text of a document without the delimiters of its math spans.
RECURSIVE SourceText(_)
SourceText(d) ==
    IF d = <<>> THEN <<>> ELSE Head(d).src \o SourceText(Tail(d))

\* A document that holds no character of a bold, heading or list marker.
Markerless(d) ==
    \A k \in 1..Len(d) : \A i \in 1..Len(d[k].src) : d[k].src[i] \notin {"#", "-", "*", "."}

\* C15: for a document of plain text and balanced math spans without bold,
\* heading or list markers, the text of the rendered spans and the source of
\* the math tokens, lines rejoined by line breaks, is the original text less
\* its "$" and "$$" delimiters.
C15_RoundTrip ==
    (Balanced(doc) /\ NoPlaceholderText(doc) /\ Markerless(doc))
        => JoinBlocks(Rendered) = SourceText(doc)

\* C16: tokenization keeps no state between runs: after any sequence of
\* content changes the parsed content is what tokenizing the current content
\* from a fresh map and a counter of 0 gives, and the token map holds exactly
\* the ids of counters 0 .. N - 1, N the number of matches of the two passes
\* over the current content, each stored under its own id.
C16_NoStateBetweenRuns ==
    /\ parsedContent = Tokenize(content)
    /\ DOMAIN parsedContent.tokens
         = {PlaceholderId(n) : n \in 0..(Len(BlockPassMatches) + Len(InlinePassMatches) - 1)}
    /\ \A id \in DOMAIN parsedContent.tokens : parsedContent.tokens[id].id = id

\* C16, its case: a content written in several changes, tokenized again at
\* each, that holds a display and an inline span and as many tokens.
C16_Retokenized ==
    /\ Len(doc) >= 2
    /\ PiecesOfKind(doc, "display") # {}
    /\ PiecesOfKind(doc, "inline") # {}
    /\ Cardinality(DOMAIN parsedContent.tokens) = 2
    /\ phase = "mounted"

\* C17: readiness is latched: no step of the instance, a new content and a
\* cleared content included, takes katexLoaded from TRUE back to FALSE.
C17_ReadyLatched == [][katexLoaded => katexLoaded']_vars

\* C17, its case: an instance that became ready, was rendered with new
\* contents and was removed, still ready.
C17_ReadyToTheEnd ==
    /\ katexLoaded
    /\ Len(doc) >= 2
    /\ phase = "unmounted"

\* C18: no timer is orphaned: an instance has at most one active interval,
\* has one only while it is mounted and not ready, and has none once it is
\* ready or removed.
C18_NoOrphanedTimer ==
    /\ interval \in {0, 1}
    /\ interval > 0 => (phase = "mounted" /\ ~katexLoaded)
    /\ (katexLoaded \/ phase = "unmounted") => interval = 0

\* C18, its case: an instance mounted before KaTeX was there, removed after
\* the script loaded and before it was ever ready, its interval cleared.
C18_RemovedWhilePolling ==
    /\ phase = "unmounted"
    /\ windowKatex
    /\ ~katexLoaded
    /\ interval = 0

\* The spans shown for math in the rendered document, and the parts of its
\* lines that resolve to a token.
MathSpansRendered == SelectSeq(SpansOf(Rendered), IsMathSpan)
ResolvedParts ==
    SelectSeq(PartsOfLines(Lines), LAMBDA part : TokenLookup(parsedContent.tokens, part).found)

\* C19: once KaTeX is there with the instance mounted, the instance, unless
\* it is removed, becomes ready and shows no math in the muted style; and the
\* effect of an instance mounted with KaTeX there sets it ready and starts no
\* interval.
C19_EventuallyReady ==
    /\ (phase = "mounted" /\ windowKatex)
           ~> (phase = "unmounted"
               \/ (katexLoaded /\ \A k \in 1..Len(MathSpansRendered) :
                                      MathSpansRendered[k].kind # "math-muted"))
    /\ [][(phase = "rendered" /\ windowKatex /\ phase' = "mounted")
              => (katexLoaded' /\ interval' = 0)]_vars

\* C19, its case: a mounted instance, ready, that shows a typeset formula.
C19_MathTypeset ==
    /\ phase = "mounted"
    /\ katexLoaded
    /\ \E k \in 1..Len(MathSpansRendered) :
           MathSpansRendered[k].kind \in {"math-inline", "math-display"}

\* C20: renderToString is called in no render in which katexLoaded is false
\* or KaTeX is absent: in such a render every part that resolves to a token
\* is shown in the muted style, by the source of its token, and the document
\* still has one block per line.
C20_MutedUntilReady ==
    ~(katexLoaded /\ windowKatex) =>
        /\ Len(MathSpansRendered) = Len(ResolvedParts)
        /\ \A k \in 1..Len(MathSpansRendered) :
               /\ MathSpansRendered[k].kind = "math-muted"
               /\ ResolvedParts[k] \in DOMAIN parsedContent.tokens
                      => MathSpansRendered[k].text = parsedContent.tokens[ResolvedParts[k]].content
        /\ Len(Rendered) = Len(Lines)
        /\ \A k \in 1..Len(Rendered) : Rendered[k].tag = FirstMatch(Lines[k])

\* C20, its case: KaTeX is there and the instance has not seen it yet; its
\* math is shown muted.
C20_KatexThereNotReady ==
    /\ phase = "mounted"
    /\ windowKatex
    /\ ~katexLoaded
    /\ Len(MathSpansRendered) >= 2

\* C21: a failure of typesetting is confined to its token: in a render
\* with KaTeX ready, the span of a minted token is the error-styled source
\* exactly when KaTeX throws for its source, every other token is typeset in
\* the style of its kind, and the document has one block per line.
C21_FailureIsolated ==
    (katexLoaded /\ windowKatex) =>
        /\ Len(MathSpansRendered) = Len(ResolvedParts)
        /\ \A k \in 1..Len(ResolvedParts) :
               ResolvedParts[k] \in DOMAIN parsedContent.tokens =>
                   LET token == parsedContent.tokens[ResolvedParts[k]]
                   IN  /\ MathSpansRendered[k].text = token.content
                       /\ MathSpansRendered[k].kind
                            = IF token.content \in katexFails THEN "math-error" ELSE token.type
        /\ Len(Rendered) = Len(Lines)

\* C21, its case: two lines, a formula KaTeX fails on in the first and one
\* it typesets in the second, rendered with KaTeX ready.
C21_OneFailsOneTypeset ==
    /\ katexLoaded /\ windowKatex
    /\ katexFails = {<<"x">>}
    /\ doc = <<InlineMath(<<"x">>), Plain(<<"\n">>), DisplayMath(<<"y">>)>>
    /\ Len(Rendered) = 2
    /\ MathSpansRendered[1].kind = "math-error"
    /\ MathSpansRendered[2].kind = "math-display"

\* C22: rendering is total: whatever the content and whether KaTeX is
\* absent, ready or throwing, the render pass returns one block per line,
\* each of a class of the renderer and made of spans of the renderer; no
\* exception of renderToString leaves the pass.
C22_RenderTotal ==
    /\ Len(Rendered)
         = 1 + Cardinality({i \in 1..Len(parsedContent.text) : parsedContent.text[i] = "\n"})
    /\ \A k \in 1..Len(Rendered) :
           Rendered[k].tag \in {"spacer", "h3", "h2", "h1", "bullet", "ordered", "p"}
    /\ \A k \in 1..Len(SpansOf(Rendered)) :
           SpansOf(Rendered)[k].kind
               \in {"text", "strong", "math-muted", "math-error", "math-inline", "math-display"}

\* C22, its case: a render of two lines in which renderToString throws, for
\* a source and for a value that is no string.
C22_RenderedWhileThrowing ==
    /\ katexLoaded /\ windowKatex
    /\ Len(Rendered) = 2
    /\ Cardinality({k \in 1..Len(MathSpansRendered) : MathSpansRendered[k].kind = "math-error"}) = 2
    /\ \E k \in 1..Len(ResolvedParts) : ResolvedParts[k] \notin DOMAIN parsedContent.tokens

\* C23: a part of a line is resolved as a math token only if it is an id
\* minted by the tokenization of the current content: the rendered document
\* has as many math spans as its lines have parts that are minted ids, and
\* every other part that is not empty, the name of an inherited property
\* such as "constructor" included, is shown as a span of its own text.
C23_OnlyMintedIdsResolve ==
    /\ Len(MathSpansRendered)
         = Len(SelectSeq(PartsOfLines(Lines), LAMBDA part : part \in DOMAIN parsedContent.tokens))
    /\ \A k \in 1..Len(PartsOfLines(Lines)) :
           LET part == PartsOfLines(Lines)[k]
           IN  (part \notin DOMAIN parsedContent.tokens /\ part # <<>>) =>
                   \E j \in 1..Len(SpansOf(Rendered)) :
                       /\ ~IsMathSpan(SpansOf(Rendered)[j])
                       /\ SpansOf(Rendered)[j].text = part

\* C24: for any input, unbalanced and interleaved delimiters included, no
\* token's source holds the id of another token, and every minted id is
\* found in the placeholder text (stated for texts that hold nothing reading
\* like a placeholder).
C24_NoCapturedPlaceholder ==
    NoPlaceholderText(doc) =>
        /\ \A id, other \in DOMAIN parsedContent.tokens :
               id # other => ~Contains(parsedContent.tokens[id].content, other)
        /\ \A id \in DOMAIN parsedContent.tokens : Contains(parsedContent.text, id)

(***************************************************************************)
(* 7. The application: lesson generation and the saved history (App).      *)
(***************************************************************************)
\* Lessons generated in one session, and requests in flight at one time.
MaxLessons == 2
MaxPending == 2

\* Entries deleted from the history in one session.
MaxDeletes == 2

\* What local storage may hold when the page is opened.
SavedHistories == {NoItem, Item(<<1>>), Item(FullHistory)}

\* The renderer, left alone by the specifications of the other components.
RendererIdle ==
    /\ doc = <<>>
    /\ content = <<>>
    /\ parsedContent = Tokenize(<<>>)
    /\ katexLoaded = FALSE
    /\ windowKatex = FALSE
    /\ interval = 0
    /\ phase = "rendered"
    /\ katexFails = {}

RemoveAt(s, i) == SubSeq(s, 1, i - 1) \o SubSeq(s, i + 1, Len(s))

Filter(s, id) == SelectSeq(s, LAMBDA h : h # id)

\* The entries of the history the model clicks on: the newest and the oldest.
Clickable(h) == IF h = <<>> THEN {} ELSE {h[1], h[Len(h)]}

PendingOfKind(kind) == {i \in 1..Len(app.pending) : app.pending[i].kind = kind}

\* The input form is shown, and its two buttons are enabled.
FormShown == app.lesson = 0 /\ ~app.roadmap
ButtonsEnabled == ~app.loading /\ ~app.loadingRoadmap

\* The mount effect: the saved history is read into the state.
LoadHistory ==
    /\ ~app.mounted
    /\ app' = [app EXCEPT !.mounted = TRUE,
                          !.history = IF app.storage.present THEN app.storage.value ELSE <<>>]
    /\ UNCHANGED <<rendererVars, chat, quiz, player>>

\* saveToHistory as it would be were the list not sliced.
saveToHistoryUnbounded(history, newLesson) == <<newLesson>> \o history

\* saveToHistory(newLesson), history being the list of the render the
\* handler was made in: the list written to the state and to local storage.
saveToHistory(history, newLesson) == Slice(<<newLesson>> \o history, HistoryLimit)

\* handleGenerateLesson up to its await, started from the form or from a
\* topic of the roadmap: the request keeps the history of this render.
handleGenerateLesson ==
    /\ app.mounted
    /\ (FormShown /\ ButtonsEnabled) \/ (app.roadmap /\ app.lesson = 0)
    /\ Len(app.pending) < MaxPending
    /\ app.made + Cardinality(PendingOfKind("lesson")) < MaxLessons
    /\ app' = [app EXCEPT !.loading = TRUE, !.lesson = 0, !.audioBuffer = FALSE,
                          !.roadmap = FALSE,
                          !.pending = Append(@, [kind |-> "lesson", history |-> app.history])]
    /\ UNCHANGED <<rendererVars, chat, quiz, player>>

\* The continuation as it would be were the lesson not saved.
LessonArrivesUnsaved(i) ==
    /\ i \in PendingOfKind("lesson")
    /\ app' = [app EXCEPT !.lesson = HistoryLimit + app.made + 1,
                          !.made = @ + 1,
                          !.loading = FALSE,
                          !.pending = RemoveAt(@, i)]
    /\ UNCHANGED <<rendererVars, chat, quiz, player>>

\* generateLessonPlan resolves: setLesson, saveToHistory, setLoading(false).
LessonArrives(i) ==
    /\ i \in PendingOfKind("lesson")
    /\ LET data == HistoryLimit + app.made + 1
           updatedHistory == saveToHistory(app.pending[i].history, data)
       IN  app' = [app EXCEPT !.lesson = data,
                              !.made = @ + 1,
                              !.history = updatedHistory,
                              !.storage = Item(updatedHistory),
                              !.loading = FALSE,
                              !.pending = RemoveAt(@, i)]
    /\ UNCHANGED <<rendererVars, chat, quiz, player>>

\* The rejection as it would be were setLoading(false) in the try block.
LessonFailsKeepsLoading(i) ==
    /\ i \in PendingOfKind("lesson")
    /\ app' = [app EXCEPT !.pending = RemoveAt(@, i)]
    /\ UNCHANGED <<rendererVars, chat, quiz, player>>

\* generateLessonPlan rejects: the alert, then setLoading(false).
LessonFails(i) ==
    /\ i \in PendingOfKind("lesson")
    /\ app' = [app EXCEPT !.loading = FALSE, !.pending = RemoveAt(@, i)]
    /\ UNCHANGED <<rendererVars, chat, quiz, player>>

\* deleteFromHistory(id) from the library side bar.
deleteFromHistory(id) ==
    /\ app.mounted
    /\ id \in Clickable(app.history)
    /\ Cardinality(app.deleted) < MaxDeletes
    /\ app' = [app EXCEPT !.history = Filter(@, id),
                          !.storage = Item(Filter(app.history, id)),
                          !.deleted = @ \cup {id}]
    /\ UNCHANGED <<rendererVars, chat, quiz, player>>

\* loadLesson(savedLesson) from the library side bar.
loadLesson(savedLesson) ==
    /\ app.mounted
    /\ savedLesson \in Clickable(app.history)
    /\ app' = [app EXCEPT !.lesson = savedLesson, !.audioBuffer = FALSE, !.roadmap = FALSE]
    /\ UNCHANGED <<rendererVars, chat, quiz, player>>

\* handleGenerateRoadmap up to its await, from the form or from the
\* "View Roadmap" button of a lesson.
handleGenerateRoadmap ==
    /\ app.mounted
    /\ (FormShown /\ ButtonsEnabled) \/ app.lesson # 0
    /\ Len(app.pending) < MaxPending
    /\ app' = [app EXCEPT !.loadingRoadmap = TRUE, !.lesson = 0, !.roadmap = FALSE,
                          !.audioBuffer = FALSE,
                          !.pending = Append(@, [kind |-> "roadmap", history |-> <<>>])]
    /\ UNCHANGED <<rendererVars, chat, quiz, player>>

\* generateRoadmap settles: setRoadmap on success, setLoadingRoadmap(false).
RoadmapSettles(i, ok) ==
    /\ i \in PendingOfKind("roadmap")
    /\ app' = [app EXCEPT !.roadmap = IF ok THEN TRUE ELSE @,
                          !.loadingRoadmap = FALSE,
                          !.pending = RemoveAt(@, i)]
    /\ UNCHANGED <<rendererVars, chat, quiz, player>>

\* handleTTS up to its await, from the "Listen" button of a lesson.
handleTTS ==
    /\ app.mounted
    /\ app.lesson # 0 /\ ~app.audioBuffer /\ ~app.loadingAudio
    /\ Len(app.pending) < MaxPending
    /\ app' = [app EXCEPT !.loadingAudio = TRUE,
                          !.pending = Append(@, [kind |-> "tts", history |-> <<>>])]
    /\ UNCHANGED <<rendererVars, chat, quiz, player>>

\* textToSpeech settles: setAudioBuffer on success, setLoadingAudio(false).
TTSSettles(i, ok) ==
    /\ i \in PendingOfKind("tts")
    /\ app' = [app EXCEPT !.audioBuffer = IF ok THEN TRUE ELSE @,
                          !.loadingAudio = FALSE,
                          !.pending = RemoveAt(@, i)]
    /\ UNCHANGED <<rendererVars, chat, quiz, player>>

\* The click on the title of the page: back to the empty form.
GoHome ==
    /\ app.mounted
    /\ app' = [app EXCEPT !.lesson = 0, !.roadmap = FALSE, !.audioBuffer = FALSE]
    /\ UNCHANGED <<rendererVars, chat, quiz, player>>

InitApp ==
    /\ RendererIdle
    /\ app \in {AppStart(saved) : saved \in SavedHistories}
    /\ chat = ChatStart
    /\ quiz = QuizStart(<<>>)
    /\ player = PlayerStart("suspended")

NextApp ==
    \/ LoadHistory
    \/ handleGenerateLesson
    \/ \E i \in 1..MaxPending : LessonArrives(i)
    \/ \E i \in 1..MaxPending : LessonFails(i)
    \/ \E id \in 1..(HistoryLimit + MaxLessons) : deleteFromHistory(id)
    \/ \E id \in 1..(HistoryLimit + MaxLessons) : loadLesson(id)
    \/ handleGenerateRoadmap
    \/ \E i \in 1..MaxPending, ok \in BOOLEAN : RoadmapSettles(i, ok)
    \/ handleTTS
    \/ \E i \in 1..MaxPending, ok \in BOOLEAN : TTSSettles(i, ok)
    \/ GoHome

SpecApp == InitApp /\ [][NextApp]_vars

\* C25: after any sequence of saves and deletions the history has at most
\* HistoryLimit entries, the newest first (a lesson made later has the
\* greater number), and the list stored under omniLearn_history is the list
\* of the state; with nothing stored the history is empty.
C25_HistoryBoundedMirrored ==
    app.mounted =>
        /\ Len(app.history) <= HistoryLimit
        /\ \A i, j \in 1..Len(app.history) : i < j => app.history[i] > app.history[j]
        /\ app.storage.present => app.storage.value = app.history
        /\ ~app.storage.present => app.history = <<>>

\* C25, its case: a lesson saved to a full history, the oldest entry dropped.
C25_OldestDropped ==
    /\ Len(app.history) = HistoryLimit
    /\ app.history[1] = HistoryLimit + 1
    /\ app.history[HistoryLimit] = 2
    /\ app.deleted = {}
    /\ app.storage = Item(app.history)

\* C26: a deletion made while a lesson is generated is not lost: an entry
\* deleted from the history is, from then on, in neither the history of the
\* state nor the list in local storage, also after the result of a
\* generation in flight at the deletion is saved.
C26_DeletionKept ==
    \A id \in app.deleted :
        /\ \A k \in 1..Len(app.history) : app.history[k] # id
        /\ \A k \in 1..Len(app.storage.value) : app.storage.value[k] # id

\* The steps of a lesson generation: its start, and the arrival of its
\* result, a success making a lesson where a failure makes none.
LessonStarted == Cardinality(PendingOfKind("lesson"))' = Cardinality(PendingOfKind("lesson")) + 1
LessonSettled == Cardinality(PendingOfKind("lesson"))' = Cardinality(PendingOfKind("lesson")) - 1
LessonSucceeded == LessonSettled /\ app.made' = app.made + 1
LessonFailed == LessonSettled /\ app.made' = app.made

\* C30: the start of a lesson generation clears lesson, roadmap and audio
\* buffer and sets loading; when the request settles loading is false; on
\* success the new lesson is the current lesson and the head of the history
\* in the state and in local storage; on failure lesson, history and storage
\* are as they were.
C30_GenerationSteps ==
    [][ /\ LessonStarted =>
              /\ app.lesson' = 0 /\ ~app.roadmap' /\ ~app.audioBuffer' /\ app.loading'
              /\ app.history' = app.history /\ app.storage' = app.storage
        /\ LessonSettled => ~app.loading'
        /\ LessonSucceeded =>
              /\ app.lesson' = HistoryLimit + app.made'
              /\ app.history' # <<>> /\ app.history'[1] = app.lesson'
              /\ app.storage' = Item(app.history')
        /\ LessonFailed =>
              /\ app.lesson' = app.lesson
              /\ app.history' = app.history
              /\ app.storage' = app.storage
        /\ app.history' # app.history => (LessonSucceeded \/ ~LessonSettled)
      ]_vars

\* C30, its case: the second generation of a session has succeeded: its
\* lesson is shown and heads the history, and nothing is loading.
C30_SecondLessonSaved ==
    /\ app.made = 2
    /\ app.lesson = HistoryLimit + 2
    /\ app.history[1] = app.lesson
    /\ app.pending = <<>>
    /\ ~app.loading
    /\ ~app.audioBuffer

(***************************************************************************)
(* 8. The tutor chat (ChatInterface).                                      *)
(***************************************************************************)
\* User messages sent in one session.
MaxMessages == 3

\* The texts handleSend is called with: the input box, empty, blank or
\* written, and a quick action.
ChatTexts == {<<>>, <<" ">>, <<"q">>, <<"S", "i", "m", "p", "l", "i", "f", "y">>}

\* handleSend as it would be without the test of loading.
handleSendWhileLoading(text) ==
    /\ Trim(text) # <<>>
    /\ chat.sent < MaxMessages
    /\ chat' = [chat EXCEPT !.messages = Append(@, [role |-> "user", content |-> text]),
                            !.loading = TRUE,
                            !.pending = Append(@, text),
                            !.sent = @ + 1]
    /\ UNCHANGED <<rendererVars, app, quiz, player>>

\* handleSend(text) up to its await: refused for a blank text or while
\* loading, else the user message is appended and the request sent.
handleSend(text) ==
    /\ ~(Trim(text) = <<>> \/ chat.loading)
    /\ chat.sent < MaxMessages
    /\ chat' = [chat EXCEPT !.messages = Append(@, [role |-> "user", content |-> text]),
                            !.loading = TRUE,
                            !.pending = Append(@, text),
                            !.sent = @ + 1]
    /\ UNCHANGED <<rendererVars, app, quiz, player>>

\* getTutorResponse resolves: the response is appended, setLoading(false).
TutorResponds(i) ==
    /\ i \in 1..Len(chat.pending)
    /\ chat' = [chat EXCEPT !.messages = Append(@, [role |-> "model", content |-> "response"]),
                            !.loading = FALSE,
                            !.pending = RemoveAt(@, i)]
    /\ UNCHANGED <<rendererVars, app, quiz, player>>

\* getTutorResponse rejects: the apology is appended, setLoading(false).
TutorFails(i) ==
    /\ i \in 1..Len(chat.pending)
    /\ chat' = [chat EXCEPT !.messages = Append(@, [role |-> "model", content |-> "apology"]),
                            !.loading = FALSE,
                            !.pending = RemoveAt(@, i)]
    /\ UNCHANGED <<rendererVars, app, quiz, player>>

InitChat ==
    /\ RendererIdle
    /\ app = AppStart(NoItem)
    /\ chat = ChatStart
    /\ quiz = QuizStart(<<>>)
    /\ player = PlayerStart("suspended")

NextChat ==
    \/ \E text \in ChatTexts : handleSend(text)
    \/ \E i \in 1..MaxMessages : TutorResponds(i)
    \/ \E i \in 1..MaxMessages : TutorFails(i)

SpecChat == InitChat /\ [][NextChat]_vars

\* C27: at most one tutor request is in flight, loading is true exactly
\* while one is, and after the greeting the messages alternate: every user
\* message is followed by one model message, the response or the apology,
\* before the next user message; only the last user message may still wait.
C27_OneRequestAtATime ==
    /\ Len(chat.pending) <= 1
    /\ chat.loading <=> Len(chat.pending) = 1
    /\ chat.messages[1] = [role |-> "model", content |-> "greeting"]
    /\ \A k \in 2..Len(chat.messages) :
           /\ chat.messages[k].role = IF k % 2 = 0 THEN "user" ELSE "model"
           /\ chat.messages[k].role = "model"
                  => chat.messages[k].content \in {"response", "apology"}
           /\ chat.messages[k].role = "user" => Trim(chat.messages[k].content) # <<>>
    /\ Len(chat.messages) = 1 + 2 * chat.sent - Len(chat.pending)

\* C27, its case: a failed request and an answered one, a third accepted.
C27_ThirdMessageAccepted ==
    /\ Len(chat.messages) = 6
    /\ chat.messages[3].content = "apology"
    /\ chat.messages[5].content = "response"
    /\ chat.loading

(***************************************************************************)
(* 9. The quiz (Quiz).                                                     *)
(***************************************************************************)
\* Questions of a quiz, and options of a question.
MaxQuestions == 3
MaxOptions == 2

Options == 0..(MaxOptions - 1)

\* The lists of questions, a question given by its correctAnswerIndex.
QuestionLists == UNION {[1..n -> Options] : n \in 1..MaxQuestions}

\* questions[currentQuestionIndex].correctAnswerIndex
CorrectAnswer == quiz.questions[quiz.currentQuestionIndex + 1]

\* handleOptionSelect as it would be without the test of isSubmitted.
handleOptionSelectAlways(index) ==
    /\ ~quiz.showResult
    /\ quiz' = [quiz EXCEPT !.selectedOption = index]
    /\ UNCHANGED <<rendererVars, app, chat, player>>

\* handleOptionSelect(index), from an option of the question shown.
handleOptionSelect(index) ==
    /\ ~quiz.showResult
    /\ ~quiz.isSubmitted
    /\ quiz' = [quiz EXCEPT !.selectedOption = index]
    /\ UNCHANGED <<rendererVars, app, chat, player>>

\* handleSubmit as it would be were the score raised for every answer.
handleSubmitAlwaysScores ==
    /\ ~quiz.showResult /\ ~quiz.isSubmitted /\ quiz.selectedOption # -1
    /\ quiz' = [quiz EXCEPT !.isSubmitted = TRUE,
                            !.score = @ + 1,
                            !.submitted = @ \cup {quiz.currentQuestionIndex}]
    /\ UNCHANGED <<rendererVars, app, chat, player>>

\* handleSubmit, from the button shown while the question is not submitted
\* and enabled once an option is selected.
handleSubmit ==
    /\ ~quiz.showResult /\ ~quiz.isSubmitted /\ quiz.selectedOption # -1
    /\ quiz' = [quiz EXCEPT !.isSubmitted = TRUE,
                            !.score = IF quiz.selectedOption = CorrectAnswer THEN @ + 1 ELSE @,
                            !.submitted = @ \cup {quiz.currentQuestionIndex}]
    /\ UNCHANGED <<rendererVars, app, chat, player>>

\* handleNext, from the button shown once the question is submitted.
handleNext ==
    /\ ~quiz.showResult /\ quiz.isSubmitted
    /\ IF quiz.currentQuestionIndex < Len(quiz.questions) - 1
       THEN quiz' = [quiz EXCEPT !.currentQuestionIndex = @ + 1,
                                 !.selectedOption = -1,
                                 !.isSubmitted = FALSE]
       ELSE quiz' = [quiz EXCEPT !.showResult = TRUE]
    /\ UNCHANGED <<rendererVars, app, chat, player>>

\* handleRestart as it would be were the score kept.
handleRestartKeepsScore ==
    /\ quiz.showResult
    /\ quiz' = [quiz EXCEPT !.currentQuestionIndex = 0, !.selectedOption = -1,
                            !.isSubmitted = FALSE, !.showResult = FALSE,
                            !.submitted = {}]
    /\ UNCHANGED <<rendererVars, app, chat, player>>

\* handleRestart, from the result view.
handleRestart ==
    /\ quiz.showResult
    /\ quiz' = [quiz EXCEPT !.currentQuestionIndex = 0, !.selectedOption = -1,
                            !.isSubmitted = FALSE, !.score = 0, !.showResult = FALSE,
                            !.submitted = {}]
    /\ UNCHANGED <<rendererVars, app, chat, player>>

InitQuiz ==
    /\ RendererIdle
    /\ app = AppStart(NoItem)
    /\ chat = ChatStart
    /\ quiz \in {QuizStart(questions) : questions \in QuestionLists}
    /\ player = PlayerStart("suspended")

NextQuiz ==
    \/ \E index \in Options : handleOptionSelect(index)
    \/ handleSubmit
    \/ handleNext
    \/ handleRestart

SpecQuiz == InitQuiz /\ [][NextQuiz]_vars

\* C28: 0 <= score <= number of submitted questions <= questions.length;
\* the score changes only by a submit that raises it by 1 for a selected
\* option equal to correctAnswerIndex, or by a restart; a submitted question
\* keeps its selection until the next question; a restart gives the state
\* the quiz began with.
C28_QuizScore ==
    /\ [](/\ 0 <= quiz.score
          /\ quiz.score <= Cardinality(quiz.submitted)
          /\ Cardinality(quiz.submitted) <= Len(quiz.questions)
          /\ quiz.currentQuestionIndex \in 0..(Len(quiz.questions) - 1))
    /\ [][ /\ quiz.score' # quiz.score =>
                 \/ quiz.showResult /\ quiz' = QuizStart(quiz.questions)
                 \/ /\ quiz.score' = quiz.score + 1
                    /\ ~quiz.isSubmitted /\ quiz.isSubmitted'
                    /\ quiz.selectedOption = CorrectAnswer
                    /\ quiz.currentQuestionIndex \notin quiz.submitted
           /\ (quiz.isSubmitted /\ quiz.isSubmitted') => quiz.selectedOption' = quiz.selectedOption
           /\ (quiz.showResult /\ ~quiz.showResult') => quiz' = QuizStart(quiz.questions)
         ]_vars

\* C28, its case: a quiz of two questions done, one answer right, one wrong.
C28_OneOfTwo ==
    /\ quiz.showResult
    /\ Len(quiz.questions) = 2
    /\ quiz.submitted = {0, 1}
    /\ quiz.score = 1

(***************************************************************************)
(* 10. The audio player (AudioPlayer).                                     *)
(***************************************************************************)
\* audioBuffer.duration and the end of the time observed, in ticks of the
\* clock of the AudioContext; tick loops and resumptions alive at one time.
Duration == 2
MaxClock == 3
MaxLoops == 3

\* A number that names none of the things of S.
NewId(S) == CHOOSE n \in 1..(Cardinality(S) + 1) : n \notin S

\* play() after its await, on the player p: a new source is started at
\* pausedAtRef and a tick loop is started.
play(p) ==
    LET offset == IF p.pausedAtRef >= Duration THEN 0 ELSE p.pausedAtRef
        source == NewId({s.id : s \in p.playing} \cup {p.sourceRef})
        frame == NewId(p.frames \cup {p.animationFrameRef})
    IN  [p EXCEPT !.pausedAtRef = offset,
                  !.playing = @ \cup {[id |-> source, endsAt |-> p.clock + Duration - offset]},
                  !.startTimeRef = p.clock - offset,
                  !.sourceRef = source,
                  !.isPlaying = TRUE,
                  !.frames = @ \cup {frame},
                  !.animationFrameRef = frame]

\* pause() on the player p.
pause(p) ==
    [p EXCEPT !.playing = {s \in @ : s.id # p.sourceRef},
              !.sourceRef = 0,
              !.pausedAtRef = p.clock - p.startTimeRef,
              !.isPlaying = FALSE,
              !.frames = @ \ {p.animationFrameRef},
              !.animationFrameRef = 0]

\* stop() on the player p.
stop(p) ==
    [p EXCEPT !.playing = {s \in @ : s.id # p.sourceRef},
              !.sourceRef = 0,
              !.pausedAtRef = 0,
              !.currentTime = 0,
              !.isPlaying = FALSE,
              !.frames = @ \ {p.animationFrameRef},
              !.animationFrameRef = 0]

\* togglePlay: pause() when playing; else play(), which waits for resume()
\* when the context is suspended.
togglePlay ==
    /\ IF player.isPlaying
       THEN player' = pause(player)
       ELSE IF player.contextState = "suspended"
            THEN /\ player.resuming < MaxLoops
                 /\ player' = [player EXCEPT !.resuming = @ + 1]
            ELSE /\ Cardinality(player.frames) < MaxLoops
                 /\ player' = play(player)
    /\ UNCHANGED <<rendererVars, app, chat, quiz>>

\* resume() resolves for a play() that waited for it.
ResumeResolves ==
    /\ player.resuming > 0
    /\ Cardinality(player.frames) < MaxLoops
    /\ player' = play([player EXCEPT !.resuming = @ - 1, !.contextState = "running"])
    /\ UNCHANGED <<rendererVars, app, chat, quiz>>

\* The stop button.
StopClicked ==
    /\ player' = stop(player)
    /\ UNCHANGED <<rendererVars, app, chat, quiz>>

\* handleSeek: the range input moved to newTime.
handleSeek(newTime) ==
    /\ LET sought == [player EXCEPT !.currentTime = newTime, !.pausedAtRef = newTime]
       IN  IF player.isPlaying
           THEN /\ Cardinality(player.frames) < MaxLoops
                /\ player' = play([sought EXCEPT !.playing = {s \in @ : s.id # player.sourceRef}])
           ELSE player' = sought
    /\ UNCHANGED <<rendererVars, app, chat, quiz>>

\* The animation frame named frame runs tick.
tick(frame) ==
    /\ frame \in player.frames
    /\ LET run == [player EXCEPT !.frames = @ \ {frame}]
           elapsed == player.clock - player.startTimeRef
       IN  IF player.sourceRef = 0 THEN player' = run
           ELSE IF elapsed >= Duration THEN player' = stop(run)
           ELSE LET next == NewId(run.frames \cup {run.animationFrameRef})
                IN  player' = [run EXCEPT !.currentTime = elapsed,
                                          !.frames = @ \cup {next},
                                          !.animationFrameRef = next]
    /\ UNCHANGED <<rendererVars, app, chat, quiz>>

\* The clock of a running context advances; a source played to its end ends.
TimePasses ==
    /\ player.contextState = "running"
    /\ player.clock < MaxClock
    /\ player' = [player EXCEPT !.clock = @ + 1,
                                !.playing = {s \in @ : s.endsAt > player.clock + 1}]
    /\ UNCHANGED <<rendererVars, app, chat, quiz>>

InitPlayer ==
    /\ RendererIdle
    /\ app = AppStart(NoItem)
    /\ chat = ChatStart
    /\ quiz = QuizStart(<<>>)
    /\ player \in {PlayerStart("suspended"), PlayerStart("running")}

NextPlayer ==
    \/ togglePlay
    \/ ResumeResolves
    \/ StopClicked
    \/ \E newTime \in 0..Duration : handleSeek(newTime)
    \/ \E frame \in 1..(MaxLoops + 1) : tick(frame)
    \/ TimePasses

SpecPlayer == InitPlayer /\ [][NextPlayer]_vars

\* C29: at most one buffer source is playing and at most one tick loop is
\* scheduled, and with the player not playing and no play() waiting, no
\* source is playing.
C29_OneSourceOneLoop ==
    /\ Cardinality(player.playing) <= 1
    /\ Cardinality(player.frames) <= 1
    /\ (~player.isPlaying /\ player.resuming = 0) => player.playing = {}

====
